---- MODULE Spec2Model ----
(***************************************************************************)
(* The login / signup forms of the ReactForms lessons as a state machine.  *)
(*                                                                         *)
(* Five forms are modelled, one of which is mounted on the page:           *)
(*   "Login"      src/src/components/Login.jsx: uncontrolled inputs read   *)
(*                through refs, validation in handleSubmit;                *)
(*   "StateLogin" src/src/components/StateLogin.jsx: controlled inputs,    *)
(*                value and didEdit state per field, validation derived    *)
(*                at render.  The identifiers the component leaves         *)
(*                unbound (enteredValues, didEdit, handleInputChange,      *)
(*                handleInputBlur) are the state and handlers the lessons  *)
(*                define for it (docu/05, docu/07);                        *)
(*   "Signup"     the password-confirmation form of docu/05, Approach #5,  *)
(*                whose values are read with FormData (docu/04);           *)
(*   "SingleObject" the form of docu/07 whose values are one state object  *)
(*                written through queued updater functions;                *)
(*   "FormData"   the form of docu/04 with the acquisition checkboxes,     *)
(*                read with FormData at submit.                            *)
(*                                                                         *)
(* A string is a sequence of one-character strings, so that includes(),    *)
(* length and equality are computed on the characters.                     *)
(***************************************************************************)
EXTENDS Naturals, Sequences, FiniteSets

(* ------------------------------ bounds --------------------------------- *)

\* longest email typed, over the characters EmailChars
MaxEmailLen == 2

\* longest password typed into the StateLogin form
MaxPasswordLen == 6

\* most state updates queued before a render
MaxQueue == 3

\* most controls in a form read with FormData
MaxControls == 3

(* ------------------------- program constants --------------------------- *)

\* hasMinLength(enteredValues.password, 6)
MinPasswordLength == 6

Fields == {"email", "password"}

SignupNames == {"password", "confirm-password"}

Pages == {"Login", "StateLogin", "Signup", "SingleObject", "FormData"}

(* ------------------------------ inputs --------------------------------- *)

EmailChars == {"a", "@"}

Str_a_at_b_com == <<"a", "@", "b", ".", "c", "o", "m">>

Str_abc123 == <<"a", "b", "c", "1", "2", "3">>

Str_abc124 == <<"a", "b", "c", "1", "2", "4">>

SeqsUpTo(S, n) == UNION {[1..k -> S] : k \in 0..n}

EmailInputs == SeqsUpTo(EmailChars, MaxEmailLen) \cup {Str_a_at_b_com}

PasswordInputs ==
  {[i \in 1..k |-> "a"] : k \in 0..MaxPasswordLen} \cup {Str_abc123, Str_abc124}

ScenarioPasswords == {<<>>, Str_abc123, Str_abc124}

\* the values passed to the queued handleInputChange calls
QueuedValues == {<<"a">>, <<"a", "@">>}

\* a form control; name "" is a control without a name attribute
Control(type, name, value) ==
  [type |-> type, name |-> name, value |-> value, checked |-> FALSE]

\* the controls a form read with FormData is built from
Controls ==
  { Control("email", "email", "a@b.com"),
    Control("text", "", "x"),
    Control("checkbox", "acquisition", "google"),
    Control("checkbox", "acquisition", "friend") }

\* the forms read with FormData: their controls in document order
Forms == SeqsUpTo(Controls, MaxControls)

\* the values a user can type into a field of the StateLogin form
Inputs(identifier) ==
  IF identifier = "email" THEN EmailInputs ELSE PasswordInputs

\* the values a user can type into an input of the Login form
LoginInputs(identifier) ==
  IF identifier = "email" THEN EmailInputs ELSE {<<>>, Str_abc123}

(* --------------------------- pure functions ---------------------------- *)

\* String.prototype.includes with a one-character search string
includes(str, ch) == \E i \in 1..Len(str) : str[i] = ch

\* util/validation.js
isEmail(value) == includes(value, "@")

\* util/validation.js; no modelled input has white space, so trimming or not
\* gives the same result
isNotEmpty(value) == value # <<>>

\* util/validation.js
hasMinLength(value, minLength) == Len(value) >= minLength

\* <input type="email">: the browser's check of a submit button's form
\* submission.  The empty value passes; otherwise the value needs one "@"
\* with a local part before it and a domain after it.
typeMismatch(value) ==
  /\ value # <<>>
  /\ ~\E i \in 2..(Len(value) - 1) :
        /\ value[i] = "@"
        /\ \A j \in 1..Len(value) : value[j] = "@" => j = i
        /\ value[i + 1] # "."
        /\ value[Len(value)] # "."

\* a JavaScript string and a JavaScript array of strings, as property values
Str(s) == [type |-> "string", items |-> <<s>>]

Arr(list) == [type |-> "array", items |-> list]

\* whether new FormData(form) has an entry for the control
contributes(control) ==
  /\ control.name # ""
  /\ control.type = "checkbox" => control.checked

\* new FormData(form): the entries in document order
new_FormData(form) ==
  LET kept == SelectSeq(form, contributes)
  IN  [i \in 1..Len(kept) |-> [name |-> kept[i].name, value |-> kept[i].value]]

\* fd.getAll(name)
fd_getAll(fd, name) ==
  LET named == SelectSeq(fd, LAMBDA e : e.name = name)
  IN  [i \in 1..Len(named) |-> named[i].value]

\* Object.fromEntries(fd.entries()): a later entry of a name replaces an
\* earlier one
Object_fromEntries(fd) ==
  [n \in {fd[i].name : i \in 1..Len(fd)} |->
     LET last == CHOOSE i \in 1..Len(fd) :
                   /\ fd[i].name = n
                   /\ \A j \in 1..Len(fd) : fd[j].name = n => j <= i
     IN  Str(fd[last].value)]

(* ------------------------------- state --------------------------------- *)

VARIABLES
  page,                 \* the form that is mounted
  enteredValues,        \* StateLogin: value state of each field
  didEdit,              \* StateLogin: didEdit state of each field
  refs,                 \* Login: email.current.value, password.current.value
  emailIsInvalid,       \* Login: the emailIsInvalid state
  enteredEmail,         \* Login: handleSubmit's enteredEmail at its last run
  enteredPassword,      \* Login: handleSubmit's enteredPassword at its last run
  signupValues,         \* Signup: the values of the named form controls
  passwordsAreNotEqual, \* Signup: the passwordsAreNotEqual state
  data,                 \* Signup: handleSubmit's data object at its last run
  outcome,              \* how the last handleSubmit ended
  lastEvent,            \* the last event handled
  prevEvent,            \* the event handled before it
  delivered,            \* StateLogin: per field, what the events delivered
                        \* since mount or the last click on Reset say
  objectState,          \* SingleObject: the enteredValues state object
  pending,              \* SingleObject: the state updates queued for the
                        \* next render, in call order
  applied,              \* SingleObject: the updates the last render applied,
                        \* until the next call
  controls,             \* FormData: the form's controls in document order
  fdData,               \* FormData: handleSubmit's data at its last run
  runs,                 \* Login: how often handleSubmit ran for the last
                        \* button activation or submit event
  navigated             \* Login: whether the browser has submitted the form
                        \* (HTTP request, page reload)

stateVars == <<enteredValues, didEdit>>

loginVars == <<refs, emailIsInvalid, enteredEmail, enteredPassword>>

signupVars == <<signupValues, passwordsAreNotEqual, data>>

objectVars == <<objectState, pending, applied>>

formVars == <<controls, fdData>>

browserVars == <<runs, navigated>>

vars ==
  <<page, stateVars, loginVars, signupVars, outcome, lastEvent, prevEvent,
    delivered, objectVars, formVars, browserVars>>

Event(op, id) == [op |-> op, id |-> id]

NoEvent == Event("none", "none")

\* history of the events delivered to the form
Record(op, id) ==
  /\ prevEvent' = lastEvent
  /\ lastEvent' = Event(op, id)

\* no change and no blur delivered: the value a field is constructed with
NothingDelivered == [f \in Fields |-> [value |-> <<>>, blurred |-> FALSE]]

Init ==
  /\ page \in Pages
  /\ enteredValues = [f \in Fields |-> <<>>]
  /\ didEdit = [f \in Fields |-> FALSE]
  /\ refs = [f \in Fields |-> <<>>]
  /\ emailIsInvalid = FALSE
  /\ enteredEmail = <<>>
  /\ enteredPassword = <<>>
  /\ signupValues = [n \in SignupNames |-> <<>>]
  /\ passwordsAreNotEqual = FALSE
  /\ data = [n \in SignupNames |-> <<>>]
  /\ outcome = "none"
  /\ lastEvent = NoEvent
  /\ prevEvent = NoEvent
  /\ delivered = NothingDelivered
  /\ objectState = [f \in Fields |-> <<>>]
  /\ pending = <<>>
  /\ applied = <<>>
  /\ controls \in (IF page = "FormData" THEN Forms ELSE {<<>>})
  /\ fdData = [n \in {} |-> Str("")]
  /\ runs = 0
  /\ navigated = FALSE

(* ------------------------ StateLogin: derived -------------------------- *)

\* mutant: the password needs one character more than the minimum
StateLogin_failsRule_offByOne(identifier, value) ==
  IF identifier = "email"
    THEN ~isEmail(value) /\ ~isNotEmpty(value)
    ELSE ~hasMinLength(value, MinPasswordLength + 1)

\* the part of emailIsInvalid / passwordIsInvalid that looks at the value
StateLogin_failsRule(identifier, value) ==
  IF identifier = "email"
    THEN ~isEmail(value) /\ ~isNotEmpty(value)
    ELSE ~hasMinLength(value, MinPasswordLength)

StateLogin_emailIsInvalid ==
  /\ didEdit["email"]
  /\ StateLogin_failsRule("email", enteredValues["email"])

\* mutant: the error does not wait for the field to lose focus
StateLogin_passwordIsInvalid_noDidEdit ==
  StateLogin_failsRule("password", enteredValues["password"])

StateLogin_passwordIsInvalid ==
  /\ didEdit["password"]
  /\ StateLogin_failsRule("password", enteredValues["password"])

\* docu/05, Approach #2: validate on lost focus
Blur_emailIsInvalid ==
  /\ didEdit["email"]
  /\ ~includes(enteredValues["email"], "@")

\* what <Input error={...}> renders in its control-error div
Input_error(error) == IF error = "false" THEN "" ELSE error

StateLogin_emailError ==
  Input_error(IF StateLogin_emailIsInvalid THEN "Please Enter a Valid Email" ELSE "false")

StateLogin_passwordError ==
  Input_error(IF StateLogin_passwordIsInvalid THEN "Please Enter a Valid Password" ELSE "false")

\* the control-error div of the inline email input of docu/05
Blur_emailError ==
  IF Blur_emailIsInvalid THEN "Please enter a valid email address" ELSE ""

\* mutant: the check that the value is not empty is left out
Keystroke_emailIsInvalid_noEmptyCheck ==
  ~includes(enteredValues["email"], "@")

\* the validate-on-every-keystroke variant of emailIsInvalid
Keystroke_emailIsInvalid ==
  /\ enteredValues["email"] # <<>>
  /\ ~includes(enteredValues["email"], "@")

\* the control-error div of the keystroke variant
Keystroke_emailError ==
  IF Keystroke_emailIsInvalid THEN "Please Enter a valid email address" ELSE ""

\* the control-error div of Login.jsx
Login_emailError ==
  IF emailIsInvalid THEN "Please enter a valid email address" ELSE ""

(* ------------------------ StateLogin: handlers ------------------------- *)

\* ({ ...prev, [identifier]: value }): the keys of prev and identifier
spread(prev, identifier, value) ==
  [k \in (DOMAIN prev) \cup {identifier} |->
     IF k = identifier THEN value ELSE prev[k]]

\* mutant: the new objects are built without spreading the previous ones
handleInputChange_noSpread(identifier, value) ==
  /\ enteredValues' = [f \in Fields |-> IF f = identifier THEN value ELSE <<>>]
  /\ didEdit' = [f \in Fields |-> FALSE]

\* mutant: typing does not clear didEdit
handleInputChange_keepsDidEdit(identifier, value) ==
  /\ enteredValues' = [enteredValues EXCEPT ![identifier] = value]
  /\ UNCHANGED didEdit

handleInputChange(identifier, value) ==
  /\ enteredValues' = spread(enteredValues, identifier, value)
  /\ didEdit' = spread(didEdit, identifier, FALSE)

\* mutant: blur writes false instead of true
handleInputBlur_setsFalse(identifier) ==
  /\ didEdit' = [didEdit EXCEPT ![identifier] = FALSE]
  /\ UNCHANGED enteredValues

\* mutant: blur writes false for every other key
handleInputBlur_clearsOthers(identifier) ==
  /\ didEdit' = [k \in (DOMAIN didEdit) \cup {identifier} |-> k = identifier]
  /\ UNCHANGED enteredValues

handleInputBlur(identifier) ==
  /\ didEdit' = spread(didEdit, identifier, TRUE)
  /\ UNCHANGED enteredValues

StateLogin_handleSubmit ==
  /\ outcome' = "completed"
  /\ UNCHANGED stateVars

(* -------------------------- Login: handlers ---------------------------- *)

\* the events the browser dispatches for a button activation and for a form
\* submission, before a handler has seen them
ClickEvent == [type |-> "click", defaultPrevented |-> FALSE]

SubmitEvent == [type |-> "submit", defaultPrevented |-> FALSE]

\* mutant: handleSubmit does not call event.preventDefault()
preventDefault_missing(event) == event

\* event.preventDefault(), the first statement of handleSubmit
preventDefault(event) == [event EXCEPT !.defaultPrevented = TRUE]

\* whether the browser goes on to submit the form after the submit event's
\* handler has returned
defaultSubmission == ~preventDefault(SubmitEvent).defaultPrevented

\* mutant: an invalid email flips the flag instead of setting it
Login_handleSubmit_toggles ==
  /\ enteredEmail' = refs["email"]
  /\ enteredPassword' = refs["password"]
  /\ IF ~includes(refs["email"], "@")
       THEN /\ emailIsInvalid' = ~emailIsInvalid
            /\ outcome' = "stopped"
       ELSE /\ emailIsInvalid' = FALSE
            /\ outcome' = "completed"
  /\ UNCHANGED refs

\* mutant: the handler clears the inputs it has read
Login_handleSubmit_clearsInputs ==
  /\ enteredEmail' = refs["email"]
  /\ enteredPassword' = refs["password"]
  /\ IF ~includes(refs["email"], "@")
       THEN /\ emailIsInvalid' = TRUE
            /\ outcome' = "stopped"
       ELSE /\ emailIsInvalid' = FALSE
            /\ outcome' = "completed"
  /\ refs' = [f \in Fields |-> <<>>]

\* mutant: an invalid email stops the handler without setting the flag
Login_handleSubmit_swallows ==
  /\ enteredEmail' = refs["email"]
  /\ enteredPassword' = refs["password"]
  /\ IF ~includes(refs["email"], "@")
       THEN /\ outcome' = "stopped"
            /\ UNCHANGED emailIsInvalid
       ELSE /\ emailIsInvalid' = FALSE
            /\ outcome' = "completed"
  /\ UNCHANGED refs

\* mutant: a valid email does not clear the flag
Login_handleSubmit_keepsFlag ==
  /\ enteredEmail' = refs["email"]
  /\ enteredPassword' = refs["password"]
  /\ IF ~includes(refs["email"], "@")
       THEN /\ emailIsInvalid' = TRUE
            /\ outcome' = "stopped"
       ELSE /\ outcome' = "completed"
            /\ UNCHANGED emailIsInvalid
  /\ UNCHANGED refs

Login_handleSubmit ==
  /\ enteredEmail' = refs["email"]
  /\ enteredPassword' = refs["password"]
  /\ IF ~includes(refs["email"], "@")
       THEN /\ emailIsInvalid' = TRUE
            /\ outcome' = "stopped"
       ELSE /\ emailIsInvalid' = FALSE
            /\ outcome' = "completed"
  /\ UNCHANGED refs

(* -------------------------- Signup: handlers --------------------------- *)

\* Object.fromEntries(fd.entries()) for the two password controls
FormData_entries == [n \in SignupNames |-> signupValues[n]]

Signup_handleSubmit ==
  /\ data' = FormData_entries
  /\ IF FormData_entries["password"] # FormData_entries["confirm-password"]
       THEN /\ passwordsAreNotEqual' = TRUE
            /\ outcome' = "stopped"
       ELSE /\ outcome' = "completed"
            /\ UNCHANGED passwordsAreNotEqual
  /\ UNCHANGED signupValues

(* -------------------------- FormData: handlers ------------------------- *)

\* mutant: data.acquisition is not assigned
FormData_handleSubmit_noGetAll ==
  /\ fdData' = Object_fromEntries(new_FormData(controls))
  /\ outcome' = "completed"
  /\ UNCHANGED controls

\* the final handleSubmit of docu/04
FormData_handleSubmit ==
  LET fd == new_FormData(controls)
      acquisitionChannel == fd_getAll(fd, "acquisition")
      entriesData == Object_fromEntries(fd)
  IN  /\ fdData' = spread(entriesData, "acquisition", Arr(acquisitionChannel))
      /\ outcome' = "completed"
      /\ UNCHANGED controls

(* ----------------------- SingleObject: handlers ------------------------ *)

Update(identifier, value) == [identifier |-> identifier, value |-> value]

\* mutant: the new object is built from the rendered enteredValues, not from
\* the previous state the updater is given
updater_fromRendered(prevValues, rendered, identifier, value) ==
  spread(rendered, identifier, value)

\* prevValues => ({ ...prevValues, [identifier]: value }), in a render whose
\* enteredValues is `rendered`
updater(prevValues, rendered, identifier, value) ==
  spread(prevValues, identifier, value)

\* the queued updaters run in call order, each on the result of the one
\* before it
RECURSIVE applyUpdates(_, _, _)
applyUpdates(prevValues, rendered, queue) ==
  IF queue = <<>>
    THEN prevValues
    ELSE applyUpdates(
           updater(prevValues, rendered, Head(queue).identifier, Head(queue).value),
           rendered, Tail(queue))

\* handleInputChange of the single-object lesson: setEnteredValues(updater)
SingleObject_handleInputChange(identifier, value) ==
  /\ pending' = Append(pending, Update(identifier, value))
  /\ UNCHANGED objectState

(* ------------------------------ actions -------------------------------- *)

Change(identifier, value) ==
  /\ page = "StateLogin"
  /\ handleInputChange(identifier, value)
  /\ Record("change", identifier)
  /\ delivered' =
       [delivered EXCEPT ![identifier] = [value |-> value, blurred |-> FALSE]]
  /\ UNCHANGED <<page, formVars, browserVars, objectVars, loginVars, signupVars, outcome>>

Blur(identifier) ==
  /\ page = "StateLogin"
  /\ handleInputBlur(identifier)
  /\ Record("blur", identifier)
  /\ delivered' = [delivered EXCEPT ![identifier].blurred = TRUE]
  /\ UNCHANGED <<page, formVars, browserVars, objectVars, loginVars, signupVars, outcome>>

StateLoginSubmit ==
  /\ page = "StateLogin"
  /\ StateLogin_handleSubmit
  /\ Record("submit", "form")
  /\ UNCHANGED <<page, formVars, browserVars, objectVars, loginVars, signupVars, delivered>>

\* <button className="button button-flat">Reset</button> has no type and no
\* onClick: it is a submit button.  A click submits the form, which runs
\* handleSubmit through onSubmit unless the browser's validation of the
\* email input stops the submission.
StateLoginReset ==
  /\ page = "StateLogin"
  /\ IF typeMismatch(enteredValues["email"])
       THEN /\ Record("invalid", "reset")
            /\ UNCHANGED <<stateVars, outcome>>
       ELSE /\ Record("submit", "reset")
            /\ StateLogin_handleSubmit
  /\ delivered' = NothingDelivered
  /\ UNCHANGED <<page, formVars, browserVars, objectVars, loginVars, signupVars>>

LoginType(identifier, value) ==
  /\ page = "Login"
  /\ refs' = [refs EXCEPT ![identifier] = value]
  /\ Record("input", identifier)
  /\ UNCHANGED <<page, formVars, browserVars, objectVars, stateVars, signupVars, outcome, delivered>>
  /\ UNCHANGED <<emailIsInvalid, enteredEmail, enteredPassword>>

LoginSubmit ==
  /\ page = "Login"
  /\ Login_handleSubmit
  /\ runs' = 1
  /\ navigated' = (navigated \/ defaultSubmission)
  /\ Record("submit", "form")
  /\ UNCHANGED <<page, formVars, objectVars, stateVars, signupVars, delivered>>

\* the Login button of Login.jsx: onClick runs handleSubmit on the click
\* event.  Only a click that is not cancelled submits the form, which runs
\* handleSubmit again on the submit event; the handler reads the refs only
\* and writes none of them, so its second run ends in the state of the first.
LoginClick ==
  /\ page = "Login"
  /\ Login_handleSubmit
  /\ IF preventDefault(ClickEvent).defaultPrevented \/ typeMismatch(refs["email"])
       THEN /\ runs' = 1
            /\ UNCHANGED navigated
       ELSE /\ runs' = 2
            /\ navigated' = (navigated \/ defaultSubmission)
  /\ Record("submit", "login")
  /\ UNCHANGED <<page, formVars, objectVars, stateVars, signupVars, delivered>>

\* the Reset button of Login.jsx: a submit button as well
LoginReset ==
  /\ page = "Login"
  /\ IF typeMismatch(refs["email"])
       THEN /\ Record("invalid", "reset")
            /\ runs' = 0
            /\ UNCHANGED <<loginVars, outcome, navigated>>
       ELSE /\ Record("submit", "reset")
            /\ Login_handleSubmit
            /\ runs' = 1
            /\ navigated' = (navigated \/ defaultSubmission)
  /\ UNCHANGED <<page, formVars, objectVars, stateVars, signupVars, delivered>>

SignupType(name, value) ==
  /\ page = "Signup"
  /\ signupValues' = [signupValues EXCEPT ![name] = value]
  /\ Record("input", name)
  /\ UNCHANGED <<page, formVars, browserVars, objectVars, stateVars, loginVars, outcome, delivered>>
  /\ UNCHANGED <<passwordsAreNotEqual, data>>

SignupSubmit ==
  /\ page = "Signup"
  /\ Signup_handleSubmit
  /\ Record("submit", "form")
  /\ UNCHANGED <<page, formVars, browserVars, objectVars, stateVars, loginVars, delivered>>

SingleObjectChange(identifier, value) ==
  /\ page = "SingleObject"
  /\ Len(pending) < MaxQueue
  /\ SingleObject_handleInputChange(identifier, value)
  /\ applied' = <<>>
  /\ Record("queued", identifier)
  /\ UNCHANGED <<page, formVars, browserVars, stateVars, loginVars, signupVars, outcome, delivered>>

\* the render after the calls: the state is the queue applied to it
SingleObjectRender ==
  /\ page = "SingleObject"
  /\ pending # <<>>
  /\ objectState' = applyUpdates(objectState, objectState, pending)
  /\ applied' = pending
  /\ pending' = <<>>
  /\ Record("render", "form")
  /\ UNCHANGED <<page, formVars, browserVars, stateVars, loginVars, signupVars, outcome, delivered>>

\* the user checks or unchecks a checkbox
FormDataToggle(i) ==
  /\ page = "FormData"
  /\ i \in 1..Len(controls)
  /\ controls[i].type = "checkbox"
  /\ controls' = [controls EXCEPT ![i].checked = ~controls[i].checked]
  /\ Record("input", controls[i].name)
  /\ UNCHANGED <<page, browserVars, objectVars, stateVars, loginVars, signupVars, outcome, delivered>>
  /\ UNCHANGED fdData

FormDataSubmit ==
  /\ page = "FormData"
  /\ FormData_handleSubmit
  /\ Record("submit", "form")
  /\ UNCHANGED <<page, browserVars, objectVars, stateVars, loginVars, signupVars, delivered>>

Next ==
  \/ \E f \in Fields : \E v \in Inputs(f) : Change(f, v)
  \/ \E f \in Fields : Blur(f)
  \/ StateLoginSubmit
  \/ StateLoginReset
  \/ \E f \in Fields : \E v \in LoginInputs(f) : LoginType(f, v)
  \/ LoginSubmit
  \/ LoginClick
  \/ LoginReset
  \/ \E n \in SignupNames : \E v \in ScenarioPasswords : SignupType(n, v)
  \/ SignupSubmit
  \/ \E f \in Fields : \E v \in QueuedValues : SingleObjectChange(f, v)
  \/ SingleObjectRender
  \/ \E i \in 1..MaxControls : FormDataToggle(i)
  \/ FormDataSubmit

Spec == Init /\ [][Next]_vars

(* The handlers of the StateLogin form called with any identifier, also one *)
(* that is no key of the state objects.                                     *)

OtherIdentifiers == {"username"}

AnyInputs(identifier) ==
  CASE identifier = "email" -> {<<>>, <<"a">>, Str_a_at_b_com}
    [] identifier = "password" -> {<<>>, Str_abc123}
    [] OTHER -> {<<>>, <<"a">>}

InitAnyIdentifier == Init /\ page = "StateLogin"

NextAnyIdentifier ==
  \/ \E id \in Fields \cup OtherIdentifiers :
       \E v \in AnyInputs(id) : Change(id, v)
  \/ \E id \in Fields \cup OtherIdentifiers : Blur(id)
  \/ StateLoginSubmit
  \/ StateLoginReset

SpecAnyIdentifier == InitAnyIdentifier /\ [][NextAnyIdentifier]_vars

(* ------------------------------- claims -------------------------------- *)

IsSubmit(e) == e.op = "submit"

\* C1: a submit never completes while a field's current value fails the
\* field's rule, whether or not the field was ever blurred.
C1_SubmitValidatesEveryField ==
  (IsSubmit(lastEvent) /\ outcome = "completed") =>
    /\ page = "Login" => includes(refs["email"], "@")
    /\ page = "StateLogin" =>
         \A f \in Fields : ~StateLogin_failsRule(f, enteredValues[f])

\* C2: right after a change event on a field, whatever the new value and
\* also when the event before it was a blur of that field, didEdit of the
\* field is false.
C2_ChangeClearsDidEdit ==
  \A f \in Fields : lastEvent = Event("change", f) => ~didEdit[f]

C2_Witness ==
  /\ prevEvent = Event("blur", "email")
  /\ lastEvent = Event("change", "email")
  /\ enteredValues["email"] = <<"a">>
  /\ ~didEdit["email"]

\* C3: a field whose didEdit is false shows no error, for every value it
\* holds; no error is shown in the initial state.
C3_NoErrorWhileUntouched ==
  /\ ~didEdit["email"] =>
       (~StateLogin_emailIsInvalid /\ ~Blur_emailIsInvalid
          /\ StateLogin_emailError = "" /\ Blur_emailError = "")
  /\ ~didEdit["password"] =>
       (~StateLogin_passwordIsInvalid /\ StateLogin_passwordError = "")

C3_Witness ==
  /\ lastEvent = Event("change", "password")
  /\ ~didEdit["password"]
  /\ StateLogin_failsRule("password", enteredValues["password"])
  /\ ~didEdit["email"]
  /\ StateLogin_failsRule("email", enteredValues["email"])
  /\ ~StateLogin_passwordIsInvalid
  /\ ~StateLogin_emailIsInvalid

\* C4: after a blur the error of the field is visible exactly when the
\* value fails the rule (email: every value without '@', empty or not), and
\* after a change it is not visible.
C4_ValidateOnBlurClearOnEdit ==
  page = "StateLogin" =>
    /\ lastEvent = Event("blur", "email") =>
         (StateLogin_emailIsInvalid <=> ~includes(enteredValues["email"], "@"))
    /\ lastEvent = Event("blur", "password") =>
         (StateLogin_passwordIsInvalid
            <=> Len(enteredValues["password"]) < MinPasswordLength)
    /\ lastEvent = Event("change", "email") => ~StateLogin_emailIsInvalid
    /\ lastEvent = Event("change", "password") => ~StateLogin_passwordIsInvalid

C6_FailedSubmitTouchesEveryField ==
  IsSubmit(lastEvent) =>
    /\ (page = "Login" /\ ~includes(refs["email"], "@")) =>
         Login_emailError # ""
    /\ (page = "StateLogin"
          /\ \E f \in Fields : StateLogin_failsRule(f, enteredValues[f])) =>
         \A f \in Fields : didEdit[f]

\* C7: a submit that directly follows a submit ends the same way and leaves
\* the state of the form as the first one left it.
C7_SubmitIdempotent ==
  [][(IsSubmit(lastEvent) /\ IsSubmit(lastEvent'))
       => UNCHANGED <<page, objectVars, stateVars, loginVars, signupVars, outcome>>]_vars

C7_Witness ==
  /\ page = "Login"
  /\ IsSubmit(prevEvent)
  /\ IsSubmit(lastEvent)
  /\ outcome = "stopped"
  /\ emailIsInvalid

C10_PasswordConfirmation ==
  (page = "Signup" /\ IsSubmit(lastEvent)) =>
    IF signupValues["password"] # signupValues["confirm-password"]
      THEN outcome = "stopped" /\ passwordsAreNotEqual
      ELSE /\ outcome = "completed"
           /\ data = signupValues
           /\ ~passwordsAreNotEqual

Pristine(f) == enteredValues[f] = <<>> /\ ~didEdit[f]

\* C11: right after a click on Reset every field has its initial value and
\* is not touched, and no error is shown.
C11_ResetRestoresFields ==
  lastEvent.id = "reset" =>
    /\ page = "StateLogin" =>
         /\ \A f \in Fields : Pristine(f)
         /\ StateLogin_emailError = ""
         /\ StateLogin_passwordError = ""
    /\ page = "Login" => \A f \in Fields : refs[f] = <<>>

\* C12: a submit that directly follows a click on Reset ends as the first
\* submit of a freshly mounted form does.
C12_ResetThenSubmitAsFresh ==
  (IsSubmit(lastEvent) /\ lastEvent.id = "form"
     /\ (prevEvent = NoEvent \/ prevEvent.id = "reset")) =>
    /\ page = "Login" =>
         /\ outcome = "stopped"
         /\ emailIsInvalid
         /\ enteredEmail = <<>>
         /\ enteredPassword = <<>>
    /\ page = "StateLogin" => outcome = "completed"

\* C15: a field's didEdit is true exactly when a blur of the field was
\* delivered after its last change and after the last click on Reset.
C15_TouchedIffBlurredSinceEdit ==
  page = "StateLogin" => \A f \in Fields : didEdit[f] <=> delivered[f].blurred

\* C17: a field's value is the value of the last change event delivered for
\* it since mount or the last click on Reset, or its initial value if there
\* was none.
C17_ValueIsLastDeliveredChange ==
  page = "StateLogin" => \A f \in Fields : enteredValues[f] = delivered[f].value

\* C18: a change of field f leaves every other field's value and didEdit as
\* they were; a blur of f leaves every value and every other field's didEdit
\* as they were.
C18_FieldIsolation ==
  [][\A f \in Fields :
       /\ lastEvent' = Event("change", f) =>
            \A g \in Fields \ {f} :
              enteredValues'[g] = enteredValues[g] /\ didEdit'[g] = didEdit[g]
       /\ lastEvent' = Event("blur", f) =>
            /\ enteredValues' = enteredValues
            /\ \A g \in Fields \ {f} : didEdit'[g] = didEdit[g]]_vars

C18_Witness ==
  /\ lastEvent = Event("change", "email")
  /\ prevEvent = Event("blur", "password")
  /\ enteredValues["email"] = <<"a">>
  /\ enteredValues["password"] = Str_abc123
  /\ didEdit["password"]

\* C19: each field starts Pristine; a change leaves it untouched; a blur
\* leaves it touched, with its error shown exactly when the value fails the
\* rule; change, blur, submit and Reset are enabled in every state; a click on
\* Reset leaves every field Pristine.
C19_FieldStateMachine ==
  page = "StateLogin" =>
    /\ lastEvent = NoEvent => \A f \in Fields : Pristine(f)
    /\ \A f \in Fields :
         /\ lastEvent = Event("change", f) => ~didEdit[f]
         /\ lastEvent = Event("blur", f) => didEdit[f]
    /\ lastEvent = Event("blur", "email") =>
         (StateLogin_emailIsInvalid
            <=> StateLogin_failsRule("email", enteredValues["email"]))
    /\ lastEvent = Event("blur", "password") =>
         (StateLogin_passwordIsInvalid
            <=> StateLogin_failsRule("password", enteredValues["password"]))
    /\ \A f \in Fields : ENABLED Blur(f)
    /\ \A f \in Fields : \A v \in Inputs(f) : ENABLED Change(f, v)
    /\ ENABLED StateLoginSubmit
    /\ ENABLED StateLoginReset
    /\ lastEvent.id = "reset" => \A f \in Fields : Pristine(f)

\* C20: the password error of the StateLogin form is "Please Enter a Valid
\* Password" exactly when the password field's didEdit is true and its value
\* has fewer than 6 characters, and nothing is shown otherwise; the password's
\* value changes only in a change event of the password field and its didEdit
\* only in a change or blur event of the password field.
C20_PasswordError ==
  /\ [](page = "StateLogin" =>
          StateLogin_passwordError =
            IF didEdit["password"] /\ Len(enteredValues["password"]) < 6
              THEN "Please Enter a Valid Password"
              ELSE "")
  /\ [][/\ enteredValues'["password"] # enteredValues["password"] =>
             lastEvent' = Event("change", "password")
        /\ didEdit'["password"] # didEdit["password"] =>
             /\ lastEvent'.id = "password"
             /\ didEdit'["password"] <=> lastEvent'.op = "blur"]_vars

C20_Witness ==
  /\ page = "StateLogin"
  /\ lastEvent = Event("blur", "password")
  /\ Len(enteredValues["password"]) = 5
  /\ StateLogin_passwordError = "Please Enter a Valid Password"

LastQueued(f, queue, default) ==
  LET named == {i \in 1..Len(queue) : queue[i].identifier = f}
  IN  IF named = {}
        THEN default
        ELSE queue[CHOOSE i \in named : \A j \in named : j <= i].value

\* C16: the render after several queued handleInputChange calls leaves
\* every identifier with the value of its last queued call, and an identifier
\* no call names with the value it had.
C16_NoLostUpdates ==
  [][(pending # <<>> /\ pending' = <<>>) =>
       \A f \in Fields :
         objectState'[f] = LastQueued(f, pending, objectState[f])]_vars

C16_Witness ==
  /\ lastEvent.op = "render"
  /\ Len(applied) = 3
  /\ applied[1] = Update("email", <<"a">>)
  /\ applied[2] = Update("password", <<"a">>)
  /\ applied[3] = Update("email", <<"a", "@">>)
  /\ objectState = [email |-> <<"a", "@">>, password |-> <<"a">>]

\* C21: in the Login form the emailIsInvalid flag says whether the email
\* read by the most recent run of handleSubmit lacked "@" (false before any
\* run); the run that sets it stops, the run that clears it completes; and
\* an event that is not a submit leaves the flag and the email last read as
\* they were.
C21_FlagFollowsLastSubmit ==
  /\ [](page = "Login" =>
          /\ emailIsInvalid = (outcome # "none" /\ ~includes(enteredEmail, "@"))
          /\ emailIsInvalid = (outcome = "stopped")
          /\ IsSubmit(lastEvent) => enteredEmail = refs["email"])
  /\ [][(page = "Login" /\ ~IsSubmit(lastEvent'))
          => UNCHANGED <<emailIsInvalid, enteredEmail, outcome>>]_vars

C21_Witness ==
  /\ page = "Login"
  /\ lastEvent = Event("input", "email")
  /\ IsSubmit(prevEvent)
  /\ emailIsInvalid
  /\ enteredEmail = <<"a">>
  /\ refs["email"] = Str_a_at_b_com

\* C22: in the validate-on-every-keystroke variant, right after a change
\* event on the email the error is shown exactly when the value the event
\* delivered is not empty and has no "@", blurred or not; a change event on
\* the password leaves the email error as it was.
C22_KeystrokeError ==
  /\ [](lastEvent = Event("change", "email") =>
          (Keystroke_emailError = "Please Enter a valid email address")
            = (/\ delivered["email"].value # <<>>
               /\ ~includes(delivered["email"].value, "@")))
  /\ [](lastEvent = Event("change", "email") =>
          (Keystroke_emailError = "")
            = (\/ delivered["email"].value = <<>>
               \/ includes(delivered["email"].value, "@")))
  /\ [][lastEvent' = Event("change", "password")
          => Keystroke_emailError' = Keystroke_emailError]_vars

C22_Witness ==
  /\ page = "StateLogin"
  /\ prevEvent = NoEvent
  /\ lastEvent = Event("change", "email")
  /\ delivered["email"] = [value |-> <<"a">>, blurred |-> FALSE]
  /\ ~didEdit["email"]
  /\ Keystroke_emailError = "Please Enter a valid email address"

\* the values of the checked controls named name among the first k controls,
\* in document order
RECURSIVE CheckedValues(_, _)
CheckedValues(name, k) ==
  IF k = 0
    THEN <<>>
    ELSE IF controls[k].name = name /\ controls[k].checked
           THEN Append(CheckedValues(name, k - 1), controls[k].value)
           ELSE CheckedValues(name, k - 1)

\* C23: after a submit of the form read with FormData, data has a property
\* for every name of a named text control and of a checked checkbox, no
\* property comes from a control without a name or from an unchecked
\* checkbox, and data.acquisition is the array of the values of all checked
\* acquisition checkboxes in document order, empty when none is checked.
C23_FormDataObject ==
  (page = "FormData" /\ IsSubmit(lastEvent)) =>
    /\ \A i \in 1..Len(controls) :
         (/\ controls[i].name # ""
          /\ controls[i].type = "checkbox" => controls[i].checked)
           => controls[i].name \in DOMAIN fdData
    /\ \A n \in DOMAIN fdData :
         /\ n # ""
         /\ \/ n = "acquisition"
            \/ \E i \in 1..Len(controls) :
                 /\ controls[i].name = n
                 /\ controls[i].type = "checkbox" => controls[i].checked
         /\ n # "acquisition" =>
              \E i \in 1..Len(controls) :
                /\ controls[i].name = n
                /\ fdData[n] = Str(controls[i].value)
    /\ "acquisition" \in DOMAIN fdData
    /\ fdData["acquisition"] = Arr(CheckedValues("acquisition", Len(controls)))

C23_Witness ==
  /\ page = "FormData"
  /\ IsSubmit(lastEvent)
  /\ Len(controls) = 3
  /\ controls[1].name = ""
  /\ controls[2].value = "friend" /\ controls[2].checked
  /\ controls[3].value = "google" /\ controls[3].checked
  /\ DOMAIN fdData = {"acquisition"}
  /\ fdData["acquisition"] = Arr(<<"friend", "google">>)

\* C24: in the Login form one activation of the Login button runs
\* handleSubmit exactly once, and the browser never submits the form itself,
\* whichever button was activated and whichever submit event was delivered.
C24_OneRunNoDefaultSubmission ==
  page = "Login" =>
    /\ ~navigated
    /\ lastEvent = Event("submit", "login") => runs = 1

C24_Witness ==
  /\ page = "Login"
  /\ prevEvent = Event("submit", "reset")
  /\ lastEvent = Event("submit", "login")
  /\ refs["email"] = Str_a_at_b_com
  /\ outcome = "completed"
  /\ runs = 1
  /\ ~navigated

====
